---- MODULE Spec2Model ----
(***************************************************************************)
(* Media-variant resolution and download dispatch of grammers-client:      *)
(* types/media.rs (Media, Photo, Document, Uploaded) and                   *)
(* types/photo_sizes.rs (PhotoSize, VecExt::largest).                      *)
(*                                                                         *)
(* A caller task receives one wire record, classifies it with              *)
(* Media::from_raw, asks for locators and thumbs, and downloads to one     *)
(* destination path.  Rust panics (unwrap on Err, todo!, overflow checks)  *)
(* end the operation with outcome "panicked".                              *)
(***************************************************************************)
EXTENDS Integers, Sequences, FiniteSets, TLC

VARIABLES
    overflow_checks, \* build profile: TRUE = debug (checked arithmetic), FALSE = release (wrapping)
    record,          \* the tl::enums::MessageMedia wire record handed to the caller
    media,           \* the caller's Option<Media> (NotYet before any constructor ran)
    sizes,           \* the caller's Vec<PhotoSize>
    dest,            \* the file at the destination path: NoFile or [exists, bytes]
    calls,           \* the download_media_at_location calls issued so far, in order
    last             \* the operation the task ran last: input, outcome, result, pre-state

vars == <<overflow_checks, record, media, sizes, dest, calls, last>>

----------------------------------------------------------------------------
(* Bounds of the model *)

\* longest Vec<tl::enums::PhotoSize> of a wire photo
MaxSizes == 2
\* longest Vec<PhotoSize> handed to largest() in the ranking specification
MaxLen == 3
\* number of remote calls after which the task starts no further download
MaxCalls == 2

----------------------------------------------------------------------------
(* Values *)

I32Max == 2147483647
I32Min == -I32Max - 1

None == [opt |-> "None"]
Some(v) == [opt |-> "Some", val |-> v]

\* the one ClientHandle every wrapper clones
Client == "client"

\* Option<i32> ttl_seconds of the wire records
NoTtl == None

SeqUpTo(S, n) == UNION {[1..k -> S] : k \in 0..n}

\* usize on a 64-bit target is beyond TLC's integers: [hi, lo] stands for
\* hi * 2^64 + lo, with hi = 1 exactly for a sign-extended negative i32 lo.
Usize(n) == [hi |-> 0, lo |-> n]

\* `x as usize` for an i32 x: sign extension, then reinterpretation
AsUsize(x) == [hi |-> IF x < 0 THEN 1 ELSE 0, lo |-> x]

\* Ord for usize in the representation above
UsizeLeq(a, b) == a.hi < b.hi \/ (a.hi = b.hi /\ a.lo <= b.lo)

\* a + b on i32: whether it leaves the i32 range, and the wrapped result
AddI32(a, b) ==
    IF a > 0 /\ b > 0 /\ a > I32Max - b
    THEN [overflow |-> TRUE, val |-> (a - I32Max - 1) + (b - I32Max - 1)]
    ELSE IF a < 0 /\ b < 0 /\ a < I32Min - b
    THEN [overflow |-> TRUE, val |-> (a + I32Max + 1) + (b + I32Max + 1)]
    ELSE [overflow |-> FALSE, val |-> a + b]

\* Iterator::sum::<i32>(): fold from 0, left to right
RECURSIVE SumFrom(_, _, _)
SumFrom(s, i, acc) ==
    IF i > Len(s) THEN acc
    ELSE LET r == AddI32(acc.val, s[i])
         IN SumFrom(s, i + 1, [overflow |-> acc.overflow \/ r.overflow, val |-> r.val])

SumI32(s) == SumFrom(s, 1, [overflow |-> FALSE, val |-> 0])

----------------------------------------------------------------------------
(* Wire records (grammers_tl_types), as far as this layer reads them *)

\* identity fields of the wire photos and documents: id, access_hash, file_reference
RawIdentities ==
    { [id |-> 1, access_hash |-> 11, file_reference |-> <<5>>],
      [id |-> 2, access_hash |-> 12, file_reference |-> <<>>] }

\* tl::enums::PhotoSize entries of the wire photos
RawSizeEntries ==
    { [kind |-> "Empty", type |-> "s"],
      [kind |-> "Size", type |-> "s", w |-> 90, h |-> 60, size |-> 100],
      [kind |-> "Size", type |-> "m", w |-> 320, h |-> 200, size |-> 500],
      [kind |-> "PhotoCachedSize", type |-> "m", w |-> 320, h |-> 200, bytes |-> <<1, 2>>],
      [kind |-> "PhotoStrippedSize", type |-> "i", bytes |-> <<3>>],
      [kind |-> "Progressive", type |-> "x", w |-> 800, h |-> 600, sizes |-> <<100, 400>>],
      [kind |-> "PhotoPathSize", type |-> "j", bytes |-> <<4>>] }

\* further entries for ranking: the tied maximum of the scenario, a negative
\* declared count, scan lengths whose sum leaves the i32 range
RankSizeEntries ==
    { [kind |-> "Empty", type |-> "s"],
      [kind |-> "Size", type |-> "s", w |-> 90, h |-> 60, size |-> 100],
      [kind |-> "Size", type |-> "m", w |-> 320, h |-> 200, size |-> 500],
      [kind |-> "Size", type |-> "x", w |-> 800, h |-> 600, size |-> 500],
      [kind |-> "Size", type |-> "y", w |-> 800, h |-> 600, size |-> -1],
      [kind |-> "PhotoCachedSize", type |-> "m", w |-> 320, h |-> 200, bytes |-> <<1, 2>>],
      [kind |-> "PhotoStrippedSize", type |-> "i", bytes |-> <<3>>],
      [kind |-> "Progressive", type |-> "x", w |-> 800, h |-> 600, sizes |-> <<100, 400>>],
      [kind |-> "Progressive", type |-> "w", w |-> 800, h |-> 600, sizes |-> <<I32Max, 1>>],
      [kind |-> "PhotoPathSize", type |-> "j", bytes |-> <<4>>] }

\* tl::enums::Photo over the given size entries
RawPhotos(entries, n) ==
    { [kind |-> "Empty", id |-> i.id] : i \in RawIdentities }
    \cup { [kind |-> "Photo", id |-> i.id, access_hash |-> i.access_hash,
            file_reference |-> i.file_reference, sizes |-> ss]
           : i \in RawIdentities, ss \in SeqUpTo(entries, n) }

\* tl::enums::Document
RawDocuments ==
    { [kind |-> "Empty", id |-> i.id] : i \in RawIdentities }
    \cup { [kind |-> "Document", id |-> i.id, access_hash |-> i.access_hash,
            file_reference |-> i.file_reference] : i \in RawIdentities }

OptionOf(S) == {None} \cup {Some(x) : x \in S}

MediaTags ==
    { "Empty", "Photo", "Geo", "Contact", "Unsupported", "Document", "WebPage",
      "Venue", "Game", "Invoice", "GeoLive", "Poll", "Dice" }

\* tl::enums::MessageMedia; the payload of the tags this layer never reads is left out
WireRecords(entries, n) ==
    { [tag |-> "Photo", body |-> [photo |-> p, ttl_seconds |-> NoTtl]]
        : p \in OptionOf(RawPhotos(entries, n)) }
    \cup { [tag |-> "Document", body |-> [document |-> d, ttl_seconds |-> NoTtl]]
        : d \in OptionOf(RawDocuments) }
    \cup { [tag |-> t] : t \in MediaTags \ {"Photo", "Document"} }

\* tl::enums::InputFile
InputFiles == { [kind |-> "File", name |-> "a.jpg"], [kind |-> "Big", name |-> "b.bin"] }

----------------------------------------------------------------------------
(* Outcomes of an operation *)

Returned(v) == [out |-> "returned", ret |-> v]
Panicked(msg) == [out |-> "panicked", ret |-> [panic |-> msg]]

----------------------------------------------------------------------------
(* photo_sizes.rs *)

make_from(size, photo, client) ==
    CASE size.kind = "Empty" ->
           [kind |-> "Empty", photo_type |-> size.type]
      [] size.kind = "Size" ->
           [kind |-> "Size", photo_type |-> size.type, width |-> size.w,
            height |-> size.h, size |-> size.size, id |-> photo.id,
            access_hash |-> photo.access_hash,
            file_reference |-> photo.file_reference, client |-> client]
      [] size.kind = "PhotoCachedSize" ->
           [kind |-> "Cached", photo_type |-> size.type, width |-> size.w,
            height |-> size.h, bytes |-> size.bytes]
      [] size.kind = "PhotoStrippedSize" ->
           [kind |-> "Stripped", photo_type |-> size.type, bytes |-> size.bytes]
      [] size.kind = "Progressive" ->
           [kind |-> "Progressive", photo_type |-> size.type, width |-> size.w,
            height |-> size.h, sizes |-> size.sizes]
      [] size.kind = "PhotoPathSize" ->
           [kind |-> "Path", photo_type |-> size.type, bytes |-> size.bytes]

\* PhotoSize::size; sum::<i32>() panics on overflow when the build checks
\* arithmetic and wraps when it does not
size(self) ==
    CASE self.kind = "Empty" -> Returned(Usize(0))
      [] self.kind = "Size" -> Returned(AsUsize(self.size))
      [] self.kind = "Cached" -> Returned(Usize(Len(self.bytes)))
      [] self.kind = "Stripped" -> Returned(Usize(Len(self.bytes)))
      [] self.kind = "Progressive" ->
           LET s == SumI32(self.sizes)
           IN IF s.overflow /\ overflow_checks
              THEN Panicked("attempt to add with overflow")
              ELSE Returned(AsUsize(s.val))
      [] self.kind = "Path" -> Returned(Usize(Len(self.bytes)))

photo_type(self) == self.photo_type

\* Iterator::max_by_key: a left-to-right scan that keeps the later element
\* when the keys compare equal; `best` and the result are positions in the Vec
RECURSIVE MaxByKey(_, _, _)
MaxByKey(self, i, best) ==
    IF i > Len(self) THEN best
    ELSE IF UsizeLeq(size(self[best]).ret, size(self[i]).ret)
         THEN MaxByKey(self, i + 1, i)
         ELSE MaxByKey(self, i + 1, best)

\* VecExt::largest; Some(i) is the reference to self[i]
largest(self) ==
    IF \E i \in DOMAIN self : size(self[i]).out = "panicked"
    THEN Panicked("attempt to add with overflow")
    ELSE IF Len(self) = 0 THEN Returned(None)
    ELSE Returned(Some(MaxByKey(self, 2, 1)))

----------------------------------------------------------------------------
(* media.rs *)

Document_from_media(document, client) == [document |-> document, client |-> client]

\* the document locator built for the empty member too, from its id alone
Document_to_input_location_any(self) ==
    IF self.document.document = None THEN None
    ELSE LET p == self.document.document.val
         IN Some([kind |-> "InputDocumentFileLocation", id |-> p.id,
                  access_hash |-> IF p.kind = "Empty" THEN 0 ELSE p.access_hash,
                  file_reference |-> IF p.kind = "Empty" THEN <<>> ELSE p.file_reference,
                  thumb_size |-> ""])

Document_to_input_location(self) ==
    IF self.document.document = None THEN None
    ELSE LET p == self.document.document.val
         IN IF p.kind = "Empty" THEN None
            ELSE Some([kind |-> "InputDocumentFileLocation", id |-> p.id,
                       access_hash |-> p.access_hash,
                       file_reference |-> p.file_reference, thumb_size |-> ""])

Photo_from_media(photo, client) == [photo |-> photo, client |-> client]

\* the photo locator with id and access_hash taken from each other's field
Photo_to_input_location_swapped(self) ==
    IF self.photo.photo = None THEN None
    ELSE LET p == self.photo.photo.val
         IN IF p.kind = "Empty" THEN None
            ELSE Some([kind |-> "InputPhotoFileLocation", id |-> p.access_hash,
                       access_hash |-> p.id,
                       file_reference |-> p.file_reference, thumb_size |-> ""])

Photo_to_input_location(self) ==
    IF self.photo.photo = None THEN None
    ELSE LET p == self.photo.photo.val
         IN IF p.kind = "Empty" THEN None
            ELSE Some([kind |-> "InputPhotoFileLocation", id |-> p.id,
                       access_hash |-> p.access_hash,
                       file_reference |-> p.file_reference, thumb_size |-> ""])

\* Photo::thumbs
thumbs(self) ==
    IF self.photo.photo = None THEN <<>>
    ELSE LET photo == self.photo.photo.val
         IN IF photo.kind = "Empty" THEN <<>>
            ELSE [i \in DOMAIN photo.sizes |->
                     make_from(photo.sizes[i], photo, self.client)]

Uploaded_from_raw(input_file) == [input_file |-> input_file]

\* the Media enum: a variant tag and the wrapped value
MediaPhoto(photo) == [variant |-> "Photo", inner |-> photo]
MediaDocument(document) == [variant |-> "Document", inner |-> document]
MediaUploaded(uploaded) == [variant |-> "Uploaded", inner |-> uploaded]

\* from_raw with the Document arm forgotten among the unhandled tags
from_raw_no_document(m, client) ==
    IF m.tag = "Photo"
    THEN Some(MediaPhoto(Photo_from_media(m.body, client)))
    ELSE None

\* Media::from_raw
from_raw(m, client) ==
    CASE m.tag = "Empty" -> None
      [] m.tag = "Photo" -> Some(MediaPhoto(Photo_from_media(m.body, client)))
      [] m.tag = "Geo" -> None
      [] m.tag = "Contact" -> None
      [] m.tag = "Unsupported" -> None
      [] m.tag = "Document" -> Some(MediaDocument(Document_from_media(m.body, client)))
      [] m.tag = "WebPage" -> None
      [] m.tag = "Venue" -> None
      [] m.tag = "Game" -> None
      [] m.tag = "Invoice" -> None
      [] m.tag = "GeoLive" -> None
      [] m.tag = "Poll" -> None
      [] m.tag = "Dice" -> None

\* Media::to_input_location
Media_to_input_location(self) ==
    CASE self.variant = "Photo" -> Photo_to_input_location(self.inner)
      [] self.variant = "Uploaded" -> None
      [] self.variant = "Document" -> Document_to_input_location(self.inner)

----------------------------------------------------------------------------
(* The destination file and the client collaborator *)

\* the one destination path of the task
Path == "path"

NoFile == [exists |-> FALSE]
File(b) == [exists |-> TRUE, bytes |-> b]

\* what the destination may hold before the task touches it
InitialDest == { NoFile, File(<<>>), File(<<9, 9, 9>>) }

\* contents a successful remote fetch may leave at the destination
RemoteBlobs == { <<7>>, <<7, 8>> }

Unit == [unit |-> TRUE]
Ok(v) == [ok |-> TRUE, val |-> v]
Err(e) == [ok |-> FALSE, err |-> e]

\* fs::File::create(path): the file exists afterwards and is truncated, or
\* the call fails and leaves the destination as it was
File_create(d) == { [res |-> Ok(Unit), dest |-> File(<<>>)], [res |-> Err("io"), dest |-> d] }

\* file.write(buf) on the file just opened at offset 0: one write call, which
\* accepts any prefix of buf, or fails
File_write(d, buf) ==
    { [res |-> Ok(n),
       dest |-> File(SubSeq(buf, 1, n) \o SubSeq(d.bytes, n + 1, Len(d.bytes)))]
        : n \in 0..Len(buf) }
    \cup { [res |-> Err("io"), dest |-> d] }

\* ClientHandle::download_media_at_location(location, path), once it completes
download_media_at_location(d) ==
    { [res |-> Ok(Unit), dest |-> File(b)] : b \in RemoteBlobs }
    \cup { [res |-> Err("transfer"), dest |-> x] : x \in {d, File(<<>>)} }

\* Result::unwrap
unwrap(r) ==
    IF r.ok THEN Returned(r.val)
    ELSE Panicked("called Result::unwrap() on an Err value")

\* an unfinished arm left empty: the download returns ()
todo_silent == Returned(Unit)

\* todo!("Not yet implemented")
todo == Panicked("not yet implemented: Not yet implemented")

\* a value dropped by `;`: the operation returns ()
Discard(o) == IF o.out = "returned" THEN Returned(Unit) ELSE o

\* the Empty arm doing nothing at all
download_Empty_noop(d) == { [dest |-> d, io |-> Ok(Unit), o |-> Returned(Unit)] }

\* PhotoSize::download, arm Empty: fs::File::create(path).await.unwrap();
download_Empty(d) ==
    { [dest |-> c.dest, io |-> c.res, o |-> Discard(unwrap(c.res))] : c \in File_create(d) }

\* the Size arm with the blank thumb_size of the full-photo locator
download_Size_blank(self) ==
    [kind |-> "InputPhotoFileLocation", id |-> self.id,
     access_hash |-> self.access_hash, file_reference |-> self.file_reference,
     thumb_size |-> ""]

\* PhotoSize::download, arm Size: the locator handed to the client
download_Size(self) ==
    [kind |-> "InputPhotoFileLocation", id |-> self.id,
     access_hash |-> self.access_hash, file_reference |-> self.file_reference,
     thumb_size |-> self.photo_type]

\* PhotoSize::download, arm Cached: create, unwrap, one write, unwrap
download_Cached(self, d) ==
    UNION { IF c.res.ok
            THEN { [dest |-> w.dest, io |-> w.res, o |-> Discard(unwrap(w.res))]
                     : w \in File_write(c.dest, self.bytes) }
            ELSE { [dest |-> c.dest, io |-> c.res, o |-> unwrap(c.res)] }
          : c \in File_create(d) }

\* Document::download up to the remote call: the locator handed to the
\* client, or None when the method returns without calling it
Document_download(self) ==
    IF self.document.document # None
    THEN Document_to_input_location(self)
    ELSE None

----------------------------------------------------------------------------
(* The caller task *)

\* the task is between operations: not suspended in an await, not unwound
Idle == last.out = "returned"

NoOp == [op |-> "none", arg |-> None, out |-> "returned", ret |-> Unit,
         io |-> None, dest0 |-> NoFile, calls0 |-> 0]

\* the record of an operation that ran to its end without touching I/O
Pure(op, arg, o) ==
    [op |-> op, arg |-> arg, out |-> o.out, ret |-> o.ret, io |-> None,
     dest0 |-> dest, calls0 |-> Len(calls)]

\* the record of a download that ended after the I/O result r
Done(op, arg, r, o) ==
    [op |-> op, arg |-> arg, out |-> o.out, ret |-> o.ret, io |-> Some(r),
     dest0 |-> dest, calls0 |-> Len(calls)]

\* the record of a download suspended in download_media_at_location(...).await
Awaiting(op, arg) ==
    [op |-> op, arg |-> arg, out |-> "awaiting", ret |-> Unit, io |-> None,
     dest0 |-> dest, calls0 |-> Len(calls)]

\* Media::from_raw(record, client)
FromRaw ==
    /\ Idle
    /\ media' = from_raw(record, Client)
    /\ last' = Pure("Media::from_raw", record, Returned(from_raw(record, Client)))
    /\ UNCHANGED <<overflow_checks, record, sizes, dest, calls>>

\* Media::from(Uploaded::from_raw(input_file))
FromUploaded ==
    /\ Idle
    /\ \E f \in InputFiles :
         /\ media' = Some(MediaUploaded(Uploaded_from_raw(f)))
         /\ last' = Pure("Media::from", f, Returned(media'))
    /\ UNCHANGED <<overflow_checks, record, sizes, dest, calls>>

\* media.to_input_location()
ToInputLocation ==
    /\ Idle
    /\ media # None
    /\ last' = Pure("Media::to_input_location", media.val,
                    Returned(Media_to_input_location(media.val)))
    /\ UNCHANGED <<overflow_checks, record, media, sizes, dest, calls>>

\* photo.thumbs()
Thumbs ==
    /\ Idle
    /\ media # None
    /\ media.val.variant = "Photo"
    /\ sizes' = thumbs(media.val.inner)
    /\ last' = Pure("Photo::thumbs", media.val.inner, Returned(thumbs(media.val.inner)))
    /\ UNCHANGED <<overflow_checks, record, media, dest, calls>>

\* sizes[i].size()
SizeOf ==
    /\ Idle
    /\ \E i \in DOMAIN sizes :
         last' = Pure("PhotoSize::size", sizes[i], size(sizes[i]))
    /\ UNCHANGED <<overflow_checks, record, media, sizes, dest, calls>>

\* sizes.largest()
Largest ==
    /\ Idle
    /\ last' = Pure("VecExt::largest", sizes, largest(sizes))
    /\ UNCHANGED <<overflow_checks, record, media, sizes, dest, calls>>

\* sizes[i].download(path), sizes[i] an Empty
DownloadEmpty ==
    /\ Idle
    /\ \E i \in DOMAIN sizes :
         /\ sizes[i].kind = "Empty"
         /\ \E r \in download_Empty(dest) :
              /\ dest' = r.dest
              /\ last' = Done("PhotoSize::download", sizes[i], r.io, r.o)
    /\ UNCHANGED <<overflow_checks, record, media, sizes, calls>>

\* sizes[i].download(path), sizes[i] a Size: up to the await of the remote call
DownloadSize ==
    /\ Idle
    /\ Len(calls) < MaxCalls
    /\ \E i \in DOMAIN sizes :
         /\ sizes[i].kind = "Size"
         /\ calls' = Append(calls, [client |-> sizes[i].client,
                                    location |-> download_Size(sizes[i]),
                                    path |-> Path])
         /\ last' = Awaiting("PhotoSize::download", sizes[i])
    /\ UNCHANGED <<overflow_checks, record, media, sizes, dest>>

\* sizes[i].download(path), sizes[i] a Cached
DownloadCached ==
    /\ Idle
    /\ \E i \in DOMAIN sizes :
         /\ sizes[i].kind = "Cached"
         /\ \E r \in download_Cached(sizes[i], dest) :
              /\ dest' = r.dest
              /\ last' = Done("PhotoSize::download", sizes[i], r.io, r.o)
    /\ UNCHANGED <<overflow_checks, record, media, sizes, calls>>

\* sizes[i].download(path), sizes[i] a Stripped, Progressive or Path
DownloadTodo ==
    /\ Idle
    /\ \E i \in DOMAIN sizes :
         /\ sizes[i].kind \in {"Stripped", "Progressive", "Path"}
         /\ last' = Pure("PhotoSize::download", sizes[i], todo)
    /\ UNCHANGED <<overflow_checks, record, media, sizes, dest, calls>>

\* document.download(path): to its end, or up to the await of the remote call
DocumentDownload ==
    /\ Idle
    /\ media # None
    /\ media.val.variant = "Document"
    /\ LET self == media.val.inner
           location == Document_download(self)
       IN IF location = None
          THEN /\ last' = Pure("Document::download", self, Returned(Unit))
               /\ UNCHANGED calls
          ELSE /\ Len(calls) < MaxCalls
               /\ calls' = Append(calls, [client |-> self.client,
                                          location |-> location.val,
                                          path |-> Path])
               /\ last' = Awaiting("Document::download", self)
    /\ UNCHANGED <<overflow_checks, record, media, sizes, dest>>

\* the awaited download_media_at_location completes; the download unwraps its result
ClientReply ==
    /\ last.out = "awaiting"
    /\ \E r \in download_media_at_location(dest) :
         /\ dest' = r.dest
         /\ last' = [last EXCEPT !.io = Some(r.res),
                                 !.out = Discard(unwrap(r.res)).out,
                                 !.ret = Discard(unwrap(r.res)).ret]
    /\ UNCHANGED <<overflow_checks, record, media, sizes, calls>>

----------------------------------------------------------------------------
(* Specifications *)

\* the task with one wire record of any tag, any build, any destination
Init ==
    /\ overflow_checks \in BOOLEAN
    /\ record \in WireRecords(RawSizeEntries, MaxSizes)
    /\ media = None
    /\ sizes = <<>>
    /\ dest \in InitialDest
    /\ calls = <<>>
    /\ last = NoOp

Next ==
    \/ FromRaw
    \/ FromUploaded
    \/ ToInputLocation
    \/ Thumbs
    \/ DownloadEmpty
    \/ DownloadSize
    \/ DownloadCached
    \/ DownloadTodo
    \/ DocumentDownload
    \/ ClientReply

Spec == Init /\ [][Next]_vars

\* ranking: the task with one wire photo over the ranking entries
InitRank ==
    /\ overflow_checks \in BOOLEAN
    /\ record \in { r \in WireRecords(RankSizeEntries, MaxLen) : r.tag = "Photo" }
    /\ media = None
    /\ sizes = <<>>
    /\ dest = NoFile
    /\ calls = <<>>
    /\ last = NoOp

NextRank ==
    \/ FromRaw
    \/ Thumbs
    \/ SizeOf
    \/ Largest

SpecRank == InitRank /\ [][NextRank]_vars

----------------------------------------------------------------------------
(* Claims *)

\* the inner union of a Photo or Document wrapper: Option<tl::enums::Photo / Document>
InnerUnion(self) ==
    IF self.variant = "Photo" THEN self.inner.photo.photo
    ELSE self.inner.document.document

\* the inner union is present and holds the non-empty member
HasIdentity(self) ==
    /\ self.variant \in {"Photo", "Document"}
    /\ InnerUnion(self) # None
    /\ InnerUnion(self).val.kind # "Empty"

\* C1: Media::from_raw returns Some(Photo wrapper) exactly for the tag Photo,
\* Some(Document wrapper) exactly for the tag Document and None for every
\* other tag; the wrapper holds the raw record unchanged (and the client
\* handle), and from_raw returns for every tag.
C1_FromRawClassifies ==
    last.op = "Media::from_raw" =>
        LET m == last.arg
            r == last.ret
        IN /\ last.out = "returned"
           /\ media = r
           /\ (m.tag = "Photo") <=> (r # None /\ r.val.variant = "Photo")
           /\ (m.tag = "Document") <=> (r # None /\ r.val.variant = "Document")
           /\ (m.tag \notin {"Photo", "Document"}) <=> (r = None)
           /\ (r # None /\ r.val.variant = "Photo") =>
                 r.val.inner = [photo |-> m.body, client |-> Client]
           /\ (r # None /\ r.val.variant = "Document") =>
                 r.val.inner = [document |-> m.body, client |-> Client]

C1_Witness ==
    /\ last.op = "Media::from_raw"
    /\ last.arg.tag = "Document"
    /\ last.ret # None
    /\ last.ret.val.variant = "Document"

\* C7: Media::to_input_location yields a locator exactly for a Photo or
\* Document whose inner union is present and non-empty (absence for Uploaded,
\* an absent union, the empty member); the locator carries the wrapped
\* value's own id, access_hash and file_reference, a blank thumb_size, and is
\* of the photo kind for Photo and of the document kind for Document.
C7_LocatorIffIdentity ==
    last.op = "Media::to_input_location" =>
        LET self == last.arg
            r == last.ret
        IN /\ last.out = "returned"
           /\ (r # None) <=> HasIdentity(self)
           /\ r # None =>
                LET raw == InnerUnion(self).val
                IN r.val = [kind |-> IF self.variant = "Photo"
                                     THEN "InputPhotoFileLocation"
                                     ELSE "InputDocumentFileLocation",
                            id |-> raw.id, access_hash |-> raw.access_hash,
                            file_reference |-> raw.file_reference,
                            thumb_size |-> ""]

C7_Witness ==
    /\ last.op = "Media::to_input_location"
    /\ last.arg.variant = "Photo"
    /\ last.ret # None
    /\ last.ret.val.kind = "InputPhotoFileLocation"
    /\ last.ret.val.id = 2

\* the last operation is a download of a PhotoSize of the given kinds
SizeDownloadOf(kinds) ==
    /\ last.op = "PhotoSize::download"
    /\ last.arg.kind \in kinds

\* the download issued no remote call / exactly one remote call
NoCallIssued == Len(calls) = last.calls0
OneCallIssued == Len(calls) = last.calls0 + 1

\* C5: once download() on an Empty variant has completed, the destination
\* exists and holds zero bytes, whatever it held before, and the number of
\* remote calls issued is unchanged.
C5_EmptyDownload ==
    (SizeDownloadOf({"Empty"}) /\ last.out = "returned") =>
        /\ dest = File(<<>>)
        /\ NoCallIssued

C5_Witness ==
    /\ SizeDownloadOf({"Empty"})
    /\ last.out = "returned"
    /\ last.dest0 = File(<<9, 9, 9>>)
    /\ dest = File(<<>>)

\* C4 (as claimed): once download() on a Cached variant has completed, the
\* destination holds exactly the embedded bytes, for every amount the single
\* write call accepts, and no remote call was issued.
C4_CachedRoundTrip ==
    (SizeDownloadOf({"Cached"}) /\ last.out = "returned") =>
        /\ dest = File(last.arg.bytes)
        /\ NoCallIssued

\* C8 (as claimed): when download_media_at_location reports a transfer
\* failure, Document::download and PhotoSize::download (Size) hand it to the
\* caller as a result; the calling task is not aborted.
C8_TransferFailureReturned ==
    (/\ last.op = "Document::download" \/ SizeDownloadOf({"Size"})
     /\ last.io # None
     /\ ~last.io.val.ok) =>
        last.out = "returned"

\* C9: download() on a Stripped, Progressive or Path variant ends in the
\* "not yet implemented" panic, never in a normal return, before the
\* destination is created or written and before any remote call.
C9_TodoSignals ==
    SizeDownloadOf({"Stripped", "Progressive", "Path"}) =>
        /\ last.out = "panicked"
        /\ last.ret = [panic |-> "not yet implemented: Not yet implemented"]
        /\ last.io = None
        /\ dest = last.dest0
        /\ NoCallIssued

C9_Witness ==
    /\ SizeDownloadOf({"Progressive"})
    /\ last.out = "panicked"
    /\ last.dest0 = File(<<9, 9, 9>>)

\* C6 (as claimed): Document::download issues exactly one remote fetch to the
\* destination whenever the inner union is present, whichever member it
\* holds; when the union is absent it issues none, leaves the destination
\* untouched and returns.
C6_FetchWheneverPresent ==
    last.op = "Document::download" =>
        IF last.arg.document.document # None
        THEN /\ OneCallIssued
             /\ calls[Len(calls)].path = Path
        ELSE /\ NoCallIssued
             /\ dest = last.dest0
             /\ last.out = "returned"

\* C6 (amended): Document::download issues exactly one remote fetch, with the
\* document's own locator and the destination, when the inner union is
\* present and holds the non-empty member; when the union is absent or holds
\* the empty member it issues none, leaves the destination untouched and
\* returns.
C6_FetchIffIdentity ==
    last.op = "Document::download" =>
        LET self == MediaDocument(last.arg)
        IN IF HasIdentity(self)
           THEN /\ OneCallIssued
                /\ calls[Len(calls)] =
                     [client |-> Client,
                      location |-> [kind |-> "InputDocumentFileLocation",
                                    id |-> InnerUnion(self).val.id,
                                    access_hash |-> InnerUnion(self).val.access_hash,
                                    file_reference |-> InnerUnion(self).val.file_reference,
                                    thumb_size |-> ""],
                      path |-> Path]
           ELSE /\ NoCallIssued
                /\ dest = last.dest0
                /\ last.out = "returned"

C6_Witness ==
    /\ last.op = "Document::download"
    /\ HasIdentity(MediaDocument(last.arg))
    /\ last.out = "returned"
    /\ last.io # None
    /\ OneCallIssued

\* the raw kind each PhotoSize variant is made from
RawKindOf(kind) ==
    CASE kind = "Empty" -> "Empty"
      [] kind = "Size" -> "Size"
      [] kind = "Cached" -> "PhotoCachedSize"
      [] kind = "Stripped" -> "PhotoStrippedSize"
      [] kind = "Progressive" -> "Progressive"
      [] kind = "Path" -> "PhotoPathSize"

\* C10: for a Photo whose inner union is the non-empty member, thumbs()
\* returns one PhotoSize per raw size entry, in the same order, of the same
\* kind and with the same type tag, and an empty Vec for an absent or empty
\* union; download() on a Size entry so obtained issues exactly one remote
\* fetch whose locator carries the parent photo's id, access_hash and
\* file_reference and that entry's own type tag as thumb_size.
C10_ThumbsAndSizeDownload ==
    /\ last.op = "Photo::thumbs" =>
          LET self == MediaPhoto(last.arg)
              r == last.ret
          IN /\ last.out = "returned"
             /\ sizes = r
             /\ IF HasIdentity(self)
                THEN LET raw == InnerUnion(self).val.sizes
                     IN /\ Len(r) = Len(raw)
                        /\ \A i \in DOMAIN raw :
                              /\ photo_type(r[i]) = raw[i].type
                              /\ RawKindOf(r[i].kind) = raw[i].kind
                ELSE r = <<>>
    /\ SizeDownloadOf({"Size"}) =>
          LET parent == record.body.photo.val
              call == calls[Len(calls)]
          IN /\ OneCallIssued
             /\ call.client = Client
             /\ call.path = Path
             /\ call.location.kind = "InputPhotoFileLocation"
             /\ call.location.id = parent.id
             /\ call.location.access_hash = parent.access_hash
             /\ call.location.file_reference = parent.file_reference
             /\ \E i \in DOMAIN parent.sizes :
                   /\ sizes[i] = last.arg
                   /\ parent.sizes[i].kind = "Size"
                   /\ parent.sizes[i].type = call.location.thumb_size

C10_Witness ==
    /\ SizeDownloadOf({"Size"})
    /\ last.calls0 = 1
    /\ Len(calls) = 2
    /\ calls[2].location.thumb_size = "m"
    /\ calls[1].location.thumb_size = "s"
    /\ Len(sizes) = 2

\* C2 (as claimed): for every Vec<PhotoSize>, largest() returns None when the
\* Vec is empty, and otherwise a reference to an element whose size() is the
\* maximum over the Vec, the one at the highest index among those that share
\* the maximum.
C2_LargestIsLastMaximum ==
    last.op = "VecExt::largest" =>
        LET s == last.arg
        IN /\ last.out = "returned"
           /\ IF Len(s) = 0
              THEN last.ret = None
              ELSE /\ last.ret # None
                   /\ last.ret.val \in DOMAIN s
                   /\ \A j \in DOMAIN s :
                         /\ size(s[j]).out = "returned"
                         /\ UsizeLeq(size(s[j]).ret, size(s[last.ret.val]).ret)
                         /\ j > last.ret.val =>
                               size(s[j]).ret # size(s[last.ret.val]).ret

\* C3 (as claimed): size() is 0 for Empty, the declared byte count for Size,
\* the length of the embedded bytes for Cached, Stripped and Path, and the
\* sum of the scan lengths for Progressive, for every i32 value of the count
\* and the scan lengths, sums beyond the i32 range and negative values
\* included.  (Usize(n) of a negative n stands for n itself, which no usize
\* equals.)
C3_SizeIsDeclared ==
    last.op = "PhotoSize::size" =>
        LET v == last.arg
        IN /\ last.out = "returned"
           /\ CASE v.kind = "Empty" -> last.ret = Usize(0)
                [] v.kind = "Size" -> last.ret = Usize(v.size)
                [] v.kind \in {"Cached", "Stripped", "Path"} ->
                     last.ret = Usize(Len(v.bytes))
                [] v.kind = "Progressive" ->
                     /\ ~SumI32(v.sizes).overflow
                     /\ last.ret = Usize(SumI32(v.sizes).val)

====
